---- MODULE Spec2Model ----
(***************************************************************************)
(* User-account service: FastAPI request handlers (src/fastapi.py) over    *)
(* SQLAlchemy repository operations (src/db/crud.py) on the two tables of  *)
(* src/db/models.py, stored in one SQLite file (src/db/session.py).        *)
(*                                                                         *)
(* Every request owns a Session (get_db).  A handler is a sequence of SQL  *)
(* statements; each statement is one atomic step of the store.  pysqlite   *)
(* opens a transaction only in front of INSERT/UPDATE/DELETE, so a SELECT  *)
(* holds no lock once it has returned and the flush inside db.commit() is  *)
(* one atomic step.  Handlers of different worker processes interleave at  *)
(* statement granularity (Spec); SeqSpec and ClockSpec run one request at  *)
(* a time, HashSpec runs the credential hasher alone.                      *)
(***************************************************************************)
EXTENDS Integers, Sequences, FiniteSets, TLC

VARIABLES users, profiles, now, pc, req, loc, resp, script, log, hasher

vars == <<users, profiles, now, pc, req, loc, resp, script, log, hasher>>

\* Python's None, and a present value: a nullable value is <<>> or <<v>>.
None == <<>>
Some(v) == <<v>>

----------------------------------------------------------------------------
(* Bounds of the model. *)

\* hash_password: bytes of salt drawn (16 in the code), bytes of derived key
\* (32 for sha256), PBKDF2 rounds (100000), and the longest password tried.
SaltBytes == 1
DkLen == 1
Iterations == 2
MaxPwLen == 3

\* The largest row id each table hands out (an INSERT that would need a
\* larger one is not followed), and the last reading of the clock.
MaxUserId == 2
MaxProfileId == 2
MaxTime == 1

----------------------------------------------------------------------------
(* Credential hasher: crud.py hash_password / verify_password.  Strings    *)
(* are sequences of one-character strings.                                 *)

HexDigits == <<"0", "1", "2", "3", "4", "5", "6", "7",
               "8", "9", "a", "b", "c", "d", "e", "f">>

\* Characters a password is built from; "$" is the separator of the stored
\* form, "0" and "a" are also hex digits.
PwChars == {"a", "$", "0"}

\* Byte values secrets.token_hex draws from (a sample of 0..255).
RandomBytes == {0, 164, 255}

\* str.encode(): the code point of each character.
Ord(c) ==
    CASE c = "$" -> 36
      [] c \in {HexDigits[i] : i \in 1..10} ->
            47 + (CHOOSE i \in 1..10 : HexDigits[i] = c)
      [] OTHER -> 86 + (CHOOSE i \in 11..16 : HexDigits[i] = c)

Encode(s) == [i \in 1..Len(s) |-> Ord(s[i])]

\* bytes.hex(): two lower-case hex digits per byte.
RECURSIVE Hex(_)
Hex(bs) ==
    IF bs = <<>> THEN <<>>
    ELSE <<HexDigits[(Head(bs) \div 16) + 1], HexDigits[(Head(bs) % 16) + 1]>>
         \o Hex(Tail(bs))

\* The keyed pseudo-random function under PBKDF2 (HMAC-SHA256 in the code),
\* here a byte-wide mixing function of the key and the message.
RECURSIVE Absorb(_, _)
Absorb(acc, bs) ==
    IF bs = <<>> THEN acc
    ELSE Absorb((acc * 33 + Head(bs) + 1) % 256, Tail(bs))

Prf(key, msg) == Absorb(Absorb(91, key), msg)

\* One PBKDF2 block: U1 = PRF(P, S || i), Uk = PRF(P, U(k-1)), combined over
\* the rounds.
RECURSIVE Rounds(_, _, _, _)
Rounds(key, u, acc, left) ==
    IF left = 0 THEN acc
    ELSE LET nu == Prf(key, <<u>>)
         IN  Rounds(key, nu, (acc + nu) % 256, left - 1)

pbkdf2_hmac(password, salt, iterations) ==
    [i \in 1..DkLen |->
        LET u1 == Prf(password, salt \o <<i>>)
        IN  Rounds(password, u1, u1, iterations - 1)]

\* secrets.token_hex(n): every string hash_password can draw as salt.
token_hex(n) == {Hex(bs) : bs \in [1..n -> RandomBytes]}

\* crud.py:12 deriving from the salt alone.
hash_password_nopw(password, salt) ==
    salt \o <<"$">> \o Hex(pbkdf2_hmac(Encode(salt), Encode(salt), Iterations))

\* crud.py:9-13, with the salt secrets.token_hex(16) returned made explicit.
hash_password(password, salt) ==
    salt \o <<"$">> \o Hex(pbkdf2_hmac(Encode(password), Encode(salt), Iterations))

\* str.split(sep): the pieces between the separators.
RECURSIVE Split(_, _, _)
Split(s, sep, cur) ==
    IF s = <<>> THEN <<cur>>
    ELSE IF Head(s) = sep THEN <<cur>> \o Split(Tail(s), sep, <<>>)
    ELSE Split(Tail(s), sep, Append(cur, Head(s)))

\* crud.py:16-22: unpacking into (salt, hashed) raises unless there are
\* exactly two pieces, and the bare except turns that into False.
verify_password(password, password_hash) ==
    LET parts == Split(password_hash, "$", <<>>)
    IN  IF Len(parts) # 2 THEN FALSE
        ELSE Hex(pbkdf2_hmac(Encode(password), Encode(parts[1]), Iterations))
                = parts[2]

RECURSIVE Strings(_, _)
Strings(chars, n) ==
    IF n = 0 THEN {<<>>}
    ELSE LET shorter == Strings(chars, n - 1)
         IN  shorter \cup {Append(s, c) : s \in {t \in shorter : Len(t) = n - 1},
                                          c \in chars}

Passwords == Strings(PwChars, MaxPwLen)

Count(s, c) == Cardinality({i \in 1..Len(s) : s[i] = c})

----------------------------------------------------------------------------
(* Entity store: models.py.  A table is a function from primary key to     *)
(* row.  The nullable-typed columns hold None or Some(v); the store never  *)
(* commits None into a NOT NULL column.                                    *)

\* The worker processes serving requests, each request with its own Session.
Procs == {1, 2}

Emails == {"a@x.com", "b@x.com"}

UserIds == 1..MaxUserId

\* Columns of users a PATCH body may name (schemas.py UserUpdate).
UserFields == {"email", "full_name", "is_active"}

\* Columns of user_profiles a profile body may name (UserProfileBase).
ProfileFields == {"phone", "city", "country", "timezone"}

\* NOT NULL columns among the ones a body may set (models.py:15,18).
UserNotNull == {"email", "is_active"}

Max(S) == CHOOSE x \in S : \A y \in S : y <= x
Min(S) == CHOOSE x \in S : \A y \in S : x <= y

\* INTEGER PRIMARY KEY without AUTOINCREMENT: one more than the largest
\* rowid in the table, so the id of a deleted last row is handed out again.
NextRowId(table) == IF DOMAIN table = {} THEN 1 ELSE Max(DOMAIN table) + 1

InsertRow(table, id, row) ==
    [i \in DOMAIN table \cup {id} |-> IF i = id THEN row ELSE table[i]]

DeleteRows(table, ids) == [i \in DOMAIN table \ ids |-> table[i]]

\* setattr of every entry of a body onto a row.
Patch(row, data) ==
    [f \in DOMAIN row |-> IF f \in DOMAIN data THEN data[f] ELSE row[f]]

\* The attributes whose value differs from the loaded one: the columns the
\* flush puts into the UPDATE statement.
NetChanges(row, data) ==
    LET changed == {f \in DOMAIN data : data[f] # row[f]}
    IN  [f \in changed |-> data[f]]

\* pydantic model_dump(exclude_unset=True) of a body: the supplied entries.
\* A body is the function from the supplied field names to their values.
model_dump_exclude_unset(body) == body

\* pydantic model_dump(): every field, an unsupplied one with its default.
model_dump(body, fields) ==
    [f \in fields |-> IF f \in DOMAIN body THEN body[f] ELSE None]

\* utc_now (models.py:7).
utc_now == now

\* crud.py:43-45.
get_user(user_id) == IF user_id \in DOMAIN users THEN Some(user_id) ELSE None

\* crud.py:48-50 finding nothing: the pre-check never fires.
get_user_by_email_none(email) == None

\* crud.py:48-50: the first row in rowid order with that email.
get_user_by_email(email) ==
    LET hits == {i \in DOMAIN users : users[i].email = Some(email)}
    IN  IF hits = {} THEN None ELSE Some(Min(hits))

\* crud.py:113-117.
get_user_profile(user_id) ==
    LET hits == {i \in DOMAIN profiles : profiles[i].user_id = user_id}
    IN  IF hits = {} THEN None ELSE Some(Min(hits))

\* models.py:15 unique=True on users.email: would `email` collide with a
\* row other than `self`?
EmailTaken(email, self) ==
    \E i \in DOMAIN users \ self : users[i].email = email

\* models.py:36,39 without the unique constraint on user_profiles.user_id.
NoUserIdCheck(user_id) == FALSE

\* models.py:36,39 unique user_profiles.user_id: would a new row with this
\* user_id collide?
UserIdTaken(user_id) ==
    \E i \in DOMAIN profiles : profiles[i].user_id = user_id

\* models.py:15,18 nullable=False.
NotNullViolated(row) == \E f \in UserNotNull : row[f] = None

----------------------------------------------------------------------------
(* Requests and responses. *)

NoReq == [op |-> "none", user_id |-> 0, body |-> <<>>]
NoLoc == [obj |-> None, changes |-> <<>>]
NoResp == [status |-> 0, detail |-> "", exc |-> "", body |-> <<>>]

\* An HTTP response: the status, the detail of an HTTPException, the
\* exception the repository call raised or caught, and the returned row.
Response(status, detail, exc, body) ==
    [status |-> status, detail |-> detail, exc |-> exc, body |-> body]

UserBody(id) == [id |-> id, row |-> users'[id]]
ProfileBody(id) == [id |-> id, row |-> profiles'[id]]

Reply(p, r) ==
    /\ pc' = [pc EXCEPT ![p] = "done"]
    /\ loc' = [loc EXCEPT ![p] = NoLoc]
    /\ resp' = [resp EXCEPT ![p] = r]

Go(p, label, l) ==
    /\ pc' = [pc EXCEPT ![p] = label]
    /\ loc' = [loc EXCEPT ![p] = l]
    /\ UNCHANGED resp

Begin(p, r, op) ==
    /\ pc[p] = "idle"
    /\ r.op = op
    /\ req' = [req EXCEPT ![p] = r]
    /\ UNCHANGED <<script, log, hasher>>

At(p, label) ==
    /\ pc[p] = label
    /\ UNCHANGED <<req, script, log, hasher>>

NotFound(detail) == Response(404, detail, "", <<>>)

\* An exception no handler catches: the server answers 500.
Unhandled(exc) == Response(500, "Internal Server Error", exc, <<>>)

----------------------------------------------------------------------------
(* POST /users: fastapi.py create_user, crud.py create_user. *)

\* crud.py:39, db.rollback() left out: the attempted write stays.
Rollback_kept(before, attempted) == attempted

\* db.rollback() after an IntegrityError (crud.py:39, 74, 109): the store is
\* the one before the flush, whatever the flush attempted.
Rollback(before, attempted) == before

\* Salts drawn when a user row is written (a sample of token_hex).
CreateSalts == {Hex([i \in 1..SaltBytes |-> 164])}

\* crud.py:28-32 with the column defaults of models.py:18-25.
NewUser(body, salt) ==
    [email |-> Some(body.email),
     full_name |-> body.full_name,
     password_hash |-> hash_password(body.password, salt),
     is_active |-> Some(TRUE),
     created_at |-> utc_now,
     updated_at |-> utc_now]

\* fastapi.py:38-43: the pre-check by email.
CreateUserCheck(p, r) ==
    /\ Begin(p, r, "create_user")
    /\ IF get_user_by_email(r.body.email) # None
       THEN Reply(p, Response(400, "Email already registered", "", <<>>))
       ELSE Go(p, "create_user", NoLoc)
    /\ UNCHANGED <<users, profiles, now>>

\* crud.py:28-40: INSERT and COMMIT; an IntegrityError is rolled back and
\* raised again, and fastapi.py:44 does not catch it.
CreateUserCommit(p) ==
    /\ At(p, "create_user")
    /\ \E salt \in CreateSalts :
         LET row == NewUser(req[p].body, salt)
             id == NextRowId(users)
             attempted == InsertRow(users, id, row)
         IN  IF EmailTaken(row.email, {})
             THEN /\ users' = Rollback(users, attempted)
                  /\ Reply(p, Unhandled("IntegrityError"))
             ELSE /\ id <= MaxUserId
                  /\ users' = attempted
                  /\ Reply(p, Response(201, "", "", UserBody(id)))
    /\ UNCHANGED <<profiles, now>>

----------------------------------------------------------------------------
(* GET /users/{user_id}: fastapi.py get_user. *)

\* fastapi.py:54-63.
GetUser(p, r) ==
    /\ Begin(p, r, "get_user")
    /\ UNCHANGED <<users, profiles, now>>
    /\ IF get_user(r.user_id) = None
       THEN Reply(p, NotFound("User not found"))
       ELSE Reply(p, Response(200, "", "", UserBody(r.user_id)))

----------------------------------------------------------------------------
(* PATCH /users/{user_id}: fastapi.py update_user, crud.py update_user. *)

\* crud.py:64 with model_dump(): a full replace, unset fields become None.
update_data_full(body) == model_dump(body, UserFields)

\* crud.py:64.
update_data(body) == model_dump_exclude_unset(body)

\* crud.py:60-66: load the row and set the supplied attributes on it.
UpdateUserLoad(p, r) ==
    /\ Begin(p, r, "update_user")
    /\ UNCHANGED <<users, profiles, now>>
    /\ IF get_user(r.user_id) = None
       THEN Reply(p, NotFound("User not found"))
       ELSE Go(p, "update_user",
               [obj |-> Some(r.user_id),
                changes |-> NetChanges(users[r.user_id], update_data(r.body))])

\* crud.py:68-75 and fastapi.py:70-75: the flush emits one UPDATE of the
\* changed columns (and onupdate sets updated_at), or nothing when no
\* attribute changed; db.refresh reads the row back.  update_user returns
\* None on IntegrityError and the handler answers 404.
UpdateUserCommit(p) ==
    /\ At(p, "update_user")
    /\ UNCHANGED <<profiles, now>>
    /\ LET id == loc[p].obj[1]
           ch == loc[p].changes
       IN  IF DOMAIN ch = {}
           THEN /\ UNCHANGED users
                /\ IF id \in DOMAIN users
                   THEN Reply(p, Response(200, "", "", UserBody(id)))
                   ELSE Reply(p, Unhandled("InvalidRequestError"))
           ELSE IF id \notin DOMAIN users
           THEN /\ UNCHANGED users
                /\ Reply(p, Unhandled("StaleDataError"))
           ELSE LET new == [Patch(users[id], ch) EXCEPT !.updated_at = utc_now]
                    attempted == [users EXCEPT ![id] = new]
                IN  IF NotNullViolated(new) \/ EmailTaken(new.email, {id})
                    THEN /\ users' = Rollback(users, attempted)
                         /\ Reply(p, Response(404, "User not found",
                                              "IntegrityError", <<>>))
                    ELSE /\ users' = attempted
                         /\ Reply(p, Response(200, "", "", UserBody(id)))

----------------------------------------------------------------------------
(* DELETE /users/{user_id}: fastapi.py delete_user, crud.py delete_user. *)

\* models.py:27-31 without cascade="all, delete-orphan".
cascade_delete_none(user_id) == None

\* models.py:27-31: db.delete(db_user) loads User.profile so that the flush
\* deletes it with the user.
cascade_delete(user_id) == get_user_profile(user_id)

\* crud.py:80-82.
DeleteUserLoad(p, r) ==
    /\ Begin(p, r, "delete_user")
    /\ UNCHANGED <<users, profiles, now>>
    /\ IF get_user(r.user_id) = None
       THEN Reply(p, NotFound("User not found"))
       ELSE Go(p, "delete_user.cascade", NoLoc)

\* crud.py:83: the lazy load of the profile to cascade to.
DeleteUserCascade(p) ==
    /\ At(p, "delete_user.cascade")
    /\ UNCHANGED <<users, profiles, now>>
    /\ Go(p, "delete_user",
          [obj |-> cascade_delete(req[p].user_id), changes |-> <<>>])

\* crud.py:84-85: DELETE of the loaded profile and of the user by primary
\* key; a DELETE that matches no row only warns.  SQLite does not enforce
\* the foreign key (session.py sets no PRAGMA foreign_keys).
DeleteUserCommit(p) ==
    /\ At(p, "delete_user")
    /\ UNCHANGED now
    /\ profiles' = IF loc[p].obj = None THEN profiles
                   ELSE DeleteRows(profiles, {loc[p].obj[1]})
    /\ users' = DeleteRows(users, {req[p].user_id})
    /\ Reply(p, Response(204, "", "", <<>>))

----------------------------------------------------------------------------
(* POST /users/{user_id}/profile: fastapi.py create_profile, crud.py       *)
(* create_user_profile.                                                    *)

\* crud.py:98 with model_dump(): omitted fields overwrite with None.
profile_update_data_full(body) == model_dump(body, ProfileFields)

\* crud.py:98.
profile_update_data(body) == model_dump_exclude_unset(body)

\* fastapi.py:93-98.
CreateProfileUser(p, r) ==
    /\ Begin(p, r, "create_profile")
    /\ UNCHANGED <<users, profiles, now>>
    /\ IF get_user(r.user_id) = None
       THEN Reply(p, NotFound("User not found"))
       ELSE Go(p, "create_profile.query", NoLoc)

\* crud.py:93-101: the existing profile gets the supplied fields set, a new
\* one is built from every field of the body.
CreateProfileQuery(p) ==
    /\ At(p, "create_profile.query")
    /\ UNCHANGED <<users, profiles, now>>
    /\ LET db_profile == get_user_profile(req[p].user_id)
       IN  IF db_profile # None
           THEN Go(p, "create_profile",
                   [obj |-> db_profile,
                    changes |-> NetChanges(profiles[db_profile[1]],
                                           profile_update_data(req[p].body))])
           ELSE Go(p, "create_profile",
                   [obj |-> None,
                    changes |-> model_dump(req[p].body, ProfileFields)])

\* crud.py:101 (models.py:39-44).  created_at and updated_at of a profile
\* are not modelled: no handler reads them.
NewProfile(user_id, values) ==
    [user_id |-> user_id,
     phone |-> values.phone,
     city |-> values.city,
     country |-> values.country,
     timezone |-> values.timezone]

\* crud.py:103-110 and fastapi.py:100-106.
CreateProfileCommit(p) ==
    /\ At(p, "create_profile")
    /\ UNCHANGED <<users, now>>
    /\ LET ch == loc[p].changes
       IN  IF loc[p].obj = None
           THEN LET id == NextRowId(profiles)
                    attempted == InsertRow(profiles, id,
                                           NewProfile(req[p].user_id, ch))
                IN  IF UserIdTaken(req[p].user_id)
                    THEN /\ profiles' = Rollback(profiles, attempted)
                         /\ Reply(p, Response(400, "Failed to create profile",
                                              "IntegrityError", <<>>))
                    ELSE /\ id <= MaxProfileId
                         /\ profiles' = attempted
                         /\ Reply(p, Response(201, "", "", ProfileBody(id)))
           ELSE LET id == loc[p].obj[1]
                IN  IF DOMAIN ch = {}
                    THEN /\ UNCHANGED profiles
                         /\ IF id \in DOMAIN profiles
                            THEN Reply(p, Response(201, "", "", ProfileBody(id)))
                            ELSE Reply(p, Unhandled("InvalidRequestError"))
                    ELSE IF id \notin DOMAIN profiles
                    THEN /\ UNCHANGED profiles
                         /\ Reply(p, Unhandled("StaleDataError"))
                    ELSE /\ profiles' =
                              [profiles EXCEPT ![id] = Patch(profiles[id], ch)]
                         /\ Reply(p, Response(201, "", "", ProfileBody(id)))

----------------------------------------------------------------------------
(* GET and DELETE /users/{user_id}/profile. *)

\* fastapi.py:112-117.
GetProfileUser(p, r) ==
    /\ Begin(p, r, "get_profile")
    /\ UNCHANGED <<users, profiles, now>>
    /\ IF get_user(r.user_id) = None
       THEN Reply(p, NotFound("User not found"))
       ELSE Go(p, "get_profile", NoLoc)

\* fastapi.py:119-125.
GetProfileQuery(p) ==
    /\ At(p, "get_profile")
    /\ UNCHANGED <<users, profiles, now>>
    /\ LET db_profile == get_user_profile(req[p].user_id)
       IN  IF db_profile = None
           THEN Reply(p, NotFound("Profile not found"))
           ELSE Reply(p, Response(200, "", "", ProfileBody(db_profile[1])))

\* fastapi.py:131-136.
DeleteProfileUser(p, r) ==
    /\ Begin(p, r, "delete_profile")
    /\ UNCHANGED <<users, profiles, now>>
    /\ IF get_user(r.user_id) = None
       THEN Reply(p, NotFound("User not found"))
       ELSE Go(p, "delete_profile.query", NoLoc)

\* crud.py:122-124 and fastapi.py:139-143.
DeleteProfileQuery(p) ==
    /\ At(p, "delete_profile.query")
    /\ UNCHANGED <<users, profiles, now>>
    /\ LET db_profile == get_user_profile(req[p].user_id)
       IN  IF db_profile = None
           THEN Reply(p, NotFound("Profile not found"))
           ELSE Go(p, "delete_profile", [obj |-> db_profile, changes |-> <<>>])

\* crud.py:125-127.
DeleteProfileCommit(p) ==
    /\ At(p, "delete_profile")
    /\ UNCHANGED <<users, now>>
    /\ profiles' = DeleteRows(profiles, {loc[p].obj[1]})
    /\ Reply(p, Response(204, "", "", <<>>))

----------------------------------------------------------------------------
(* The requests clients send. *)

Request(op, user_id, body) == [op |-> op, user_id |-> user_id, body |-> body]

\* Bodies of POST /users (schemas.py UserCreate).
UserCreates ==
    {[email |-> "a@x.com", full_name |-> Some("Ann"), password |-> <<"a", "$">>],
     [email |-> "b@x.com", full_name |-> None, password |-> <<"0">>]}

\* Bodies of PATCH /users/{id} (schemas.py UserUpdate): the supplied fields.
UserUpdates ==
    {<<>>,
     ("email" :> Some("b@x.com")) @@ ("is_active" :> Some(FALSE)),
     ("full_name" :> None),
     ("full_name" :> Some("Bob")) @@ ("is_active" :> None)}

\* Bodies of POST /users/{id}/profile (schemas.py UserProfileCreate).
ProfileCreates ==
    {("phone" :> Some("111")) @@ ("city" :> Some("Pune")),
     ("city" :> None) @@ ("country" :> Some("IN"))}

RequestsOf(creates, updates, profile_creates) ==
    {Request("create_user", 0, b) : b \in creates}
    \cup {Request("update_user", i, b) : i \in UserIds, b \in updates}
    \cup {Request("create_profile", i, b) : i \in UserIds, b \in profile_creates}
    \cup {Request(op, i, <<>>) :
            op \in {"get_user", "delete_user", "get_profile", "delete_profile"},
            i \in UserIds}

Requests == RequestsOf(UserCreates, UserUpdates, ProfileCreates)

\* The requests the concurrent workers are sent: a sign-up for each email,
\* and one PATCH and one profile body of two fields each, so that a refused
\* write is a candidate for a partial write.
ConcurrentRequests ==
    RequestsOf({[email |-> "a@x.com", full_name |-> Some("Ann"), password |-> <<"0">>],
                [email |-> "b@x.com", full_name |-> None, password |-> <<"0">>]},
               {("email" :> Some("b@x.com")) @@ ("full_name" :> None)},
               {("phone" :> Some("111")) @@ ("city" :> Some("Pune"))})

\* A writing request arrives and its handler runs up to the end of its first
\* statement.
ArriveWrite(p, r) ==
    \/ CreateUserCheck(p, r)
    \/ UpdateUserLoad(p, r)
    \/ DeleteUserLoad(p, r)
    \/ CreateProfileUser(p, r)
    \/ DeleteProfileUser(p, r)

\* Likewise a reading request.
ArriveRead(p, r) ==
    \/ GetUser(p, r)
    \/ GetProfileUser(p, r)

Arrive(p, r) == ArriveWrite(p, r) \/ ArriveRead(p, r)

\* The next statement of a writing handler.
StepWrite(p) ==
    \/ CreateUserCommit(p)
    \/ UpdateUserCommit(p)
    \/ DeleteUserCascade(p)
    \/ DeleteUserCommit(p)
    \/ CreateProfileQuery(p)
    \/ CreateProfileCommit(p)
    \/ DeleteProfileQuery(p)
    \/ DeleteProfileCommit(p)

Step(p) == StepWrite(p) \/ GetProfileQuery(p)

NoScript == [name |-> "none"]
HasherOff == [pc |-> "off"]

\* The response is sent and the Session closed (session.py get_db); a
\* scripted client records the response it received.
Return(p) ==
    /\ pc[p] = "done"
    /\ pc' = [pc EXCEPT ![p] = "idle"]
    /\ req' = [req EXCEPT ![p] = NoReq]
    /\ loc' = [loc EXCEPT ![p] = NoLoc]
    /\ resp' = [resp EXCEPT ![p] = NoResp]
    /\ log' = IF script = NoScript THEN log ELSE Append(log, resp[p])
    /\ UNCHANGED <<users, profiles, now, script, hasher>>

\* The wall clock read by utc_now moves on.
Tick ==
    /\ now < MaxTime
    /\ now' = now + 1
    /\ UNCHANGED <<users, profiles, pc, req, loc, resp, script, log, hasher>>

\* init_db on an empty database file: both tables exist and are empty.
Init ==
    /\ users = <<>>
    /\ profiles = <<>>
    /\ now = 0
    /\ pc = [p \in Procs |-> "idle"]
    /\ req = [p \in Procs |-> NoReq]
    /\ loc = [p \in Procs |-> NoLoc]
    /\ resp = [p \in Procs |-> NoResp]
    /\ script = NoScript
    /\ log = <<>>
    /\ hasher = HasherOff

\* The writing requests of all workers interleaved statement by statement,
\* within one reading of the clock.  (No handler's control flow reads a
\* timestamp, and a reading request changes neither the store nor what
\* another request's Session holds.)
Next ==
    \E p \in Procs :
       \/ \E r \in ConcurrentRequests : ArriveWrite(p, r)
       \/ StepWrite(p)
       \/ Return(p)

Spec == Init /\ [][Next]_vars

----------------------------------------------------------------------------
(* One client sending one request at a time, either any request or the     *)
(* next request of a scripted scenario; `log` holds the responses the      *)
(* scenario has received.  The clock stands still: no response status and  *)
(* no row a scenario compares depends on a timestamp.                      *)

Client == 1

\* Another sign-up with the same email.
Variation(body) ==
    [body EXCEPT !.full_name = Some("Bob"), !.password = <<"$", "a">>]

Scripts ==
    {[name |-> "lifecycle", first |-> a, second |-> b] :
        a \in UserCreates, b \in UserCreates \cup {Variation(c) : c \in UserCreates}}
    \cup {[name |-> "cascade", user_id |-> i] : i \in UserIds}
    \cup {s \in {[name |-> "merge", user_id |-> i, first |-> a, second |-> b] :
                    i \in UserIds, a \in ProfileCreates, b \in ProfileCreates} :
            s.first # s.second}

ScriptLen(s) ==
    CASE s.name = "lifecycle" -> 5
      [] s.name = "cascade" -> 2
      [] s.name = "merge" -> 2
      [] OTHER -> 0

\* The id in the body of the scenario's first response, 0 without one.
FirstId == IF log # <<>> /\ log[1].status = 201 THEN log[1].body.id ELSE 0

ScriptRequest ==
    LET k == Len(log) + 1
    IN  CASE script.name = "lifecycle" ->
               (CASE k = 1 -> Request("create_user", 0, script.first)
                  [] k = 2 -> Request("create_user", 0, script.second)
                  [] k = 3 -> Request("get_user", FirstId, <<>>)
                  [] k = 4 -> Request("delete_user", FirstId, <<>>)
                  [] OTHER -> Request("get_user", FirstId, <<>>))
          [] script.name = "cascade" ->
               (CASE k = 1 -> Request("delete_user", script.user_id, <<>>)
                  [] OTHER -> Request("get_profile", script.user_id, <<>>))
          [] OTHER ->
               (CASE k = 1 -> Request("create_profile", script.user_id, script.first)
                  [] OTHER -> Request("create_profile", script.user_id, script.second))

\* What each scenario assumes of the store it starts from.
ScriptStart(s) ==
    CASE s.name = "lifecycle" ->
           /\ s.first.email = s.second.email
           /\ get_user_by_email(s.first.email) = None
           /\ NextRowId(users) <= MaxUserId
      [] s.name = "cascade" ->
           /\ get_user(s.user_id) # None
           /\ get_user_profile(s.user_id) # None
      [] OTHER ->
           /\ get_user(s.user_id) # None
           /\ get_user_profile(s.user_id) = None
           /\ NextRowId(profiles) <= MaxProfileId

StartScript ==
    /\ script = NoScript
    /\ pc[Client] = "idle"
    /\ \E s \in Scripts : ScriptStart(s) /\ script' = s
    /\ UNCHANGED <<users, profiles, now, pc, req, loc, resp, log, hasher>>

\* The requests the client may send next: any request, or the next request
\* of its script.
ClientRequests ==
    IF script = NoScript THEN Requests
    ELSE IF Len(log) < ScriptLen(script) THEN {ScriptRequest}
    ELSE {}

SeqNext ==
    \/ StartScript
    \/ \E r \in ClientRequests : Arrive(Client, r)
    \/ Step(Client)
    \/ Return(Client)

SeqSpec == Init /\ [][SeqNext]_vars

----------------------------------------------------------------------------
(* One client sending one request at a time while the clock advances, so   *)
(* that created_at and updated_at tell the writes apart.                   *)

ClockRequests ==
    RequestsOf(UserCreates, UserUpdates, {("phone" :> Some("111"))})

ClockNext ==
    \/ \E r \in ClockRequests : Arrive(Client, r)
    \/ Step(Client)
    \/ Return(Client)
    \/ Tick

ClockSpec == Init /\ [][ClockNext]_vars

----------------------------------------------------------------------------
(* The hasher on its own: hash a password, then verify it. *)

HashInit ==
    /\ users = <<>>
    /\ profiles = <<>>
    /\ now = 0
    /\ pc = [p \in Procs |-> "idle"]
    /\ req = [p \in Procs |-> NoReq]
    /\ loc = [p \in Procs |-> NoLoc]
    /\ resp = [p \in Procs |-> NoResp]
    /\ script = NoScript
    /\ log = <<>>
    /\ \E p \in Passwords :
         hasher = [pc |-> "start", password |-> p, stored |-> <<>>, ok |-> FALSE]

HashPassword ==
    /\ hasher.pc = "start"
    /\ \E salt \in token_hex(SaltBytes) :
         hasher' = [hasher EXCEPT !.pc = "hashed",
                                  !.stored = hash_password(hasher.password, salt)]
    /\ UNCHANGED <<users, profiles, now, pc, req, loc, resp, script, log>>

VerifyPassword ==
    /\ hasher.pc = "hashed"
    /\ hasher' = [hasher EXCEPT !.pc = "verified",
                                !.ok = verify_password(hasher.password, hasher.stored)]
    /\ UNCHANGED <<users, profiles, now, pc, req, loc, resp, script, log>>

HashNext == HashPassword \/ VerifyPassword

HashSpec == HashInit /\ [][HashNext]_vars

----------------------------------------------------------------------------
(* Properties. *)

Done(p, op) == pc[p] = "done" /\ req[p].op = op

\* C1: of concurrent POST /users requests with one email exactly one persists
\* a user, and every one of them ends 201 or 400 (ConflictError), never with
\* an unhandled fault.
C1_ConcurrentCreateConflict ==
    /\ \A p \in Procs : Done(p, "create_user") => resp[p].status \in {201, 400}
    /\ \A i, j \in DOMAIN users : users[i].email = users[j].email => i = j

\* C2: an update whose email belongs to another user fails with ConflictError
\* (400); NotFound (404) is answered only when no user has that id.
C2_UpdateConflictDistinct ==
    \A p \in Procs :
       Done(p, "update_user") =>
          /\ resp[p].exc = "IntegrityError" => resp[p].status = 400
          /\ resp[p].status = 404 => resp[p].exc = ""

\* C3: once delete_user has returned True for a user (204), the store holds
\* neither the user row nor a profile row with that user_id, and the
\* GET /users/{id}/profile that follows answers 404.
C3_DeleteCascades ==
    /\ (Done(Client, "delete_user") /\ resp[Client].status = 204) =>
          /\ get_user(req[Client].user_id) = None
          /\ get_user_profile(req[Client].user_id) = None
    /\ (script.name = "cascade" /\ Len(log) >= 1) =>
          /\ log[1].status = 204
          /\ get_user(script.user_id) = None
          /\ get_user_profile(script.user_id) = None
    /\ (script.name = "cascade" /\ Len(log) >= 2) => log[2].status = 404

C3_Witness == script.name = "cascade" /\ Len(log) = 2

\* C4: an update_user that succeeds sets exactly the supplied fields among
\* email, full_name and is_active to the supplied values and leaves the
\* other fields of the row, the other users and every profile as they were;
\* with an empty body the whole row, updated_at included, is unchanged.
C4_UpdateMergePatch ==
    [][(pc[Client] = "idle" /\ pc'[Client] = "update_user"
            => users' = users /\ profiles' = profiles)
       /\ (pc[Client] = "update_user" /\ resp'[Client].status = 200 =>
            LET id == req[Client].user_id
                body == req[Client].body
            IN  /\ DOMAIN users' = DOMAIN users
                /\ \A f \in UserFields :
                      users'[id][f] = IF f \in DOMAIN body THEN body[f]
                                      ELSE users[id][f]
                /\ users'[id].password_hash = users[id].password_hash
                /\ users'[id].created_at = users[id].created_at
                /\ DOMAIN body = {} => users'[id] = users[id]
                /\ \A i \in DOMAIN users \ {id} : users'[i] = users[i]
                /\ profiles' = profiles)]_vars

C4_Witness ==
    /\ Done(Client, "update_user")
    /\ resp[Client].status = 200
    /\ DOMAIN req[Client].body = {"email", "is_active"}
    /\ users[req[Client].user_id].full_name # None
    /\ users[req[Client].user_id].updated_at # users[req[Client].user_id].created_at
    /\ DOMAIN profiles # {}
    /\ Cardinality(DOMAIN users) = 2

\* C5: two create_user_profile calls in a row for a user without a profile
\* leave one profile row: it has the id and user_id the first call gave it,
\* the second call's value in every field the second call supplied and the
\* first call's value (None where the first supplied none) in the others.
C5_ProfileMerge ==
    (script.name = "merge" /\ Len(log) = 2) =>
       LET rows == {i \in DOMAIN profiles : profiles[i].user_id = script.user_id}
       IN  /\ log[1].status = 201
           /\ log[2].status = 201
           /\ rows = {log[1].body.id}
           /\ log[2].body.id = log[1].body.id
           /\ log[1].body.row.user_id = script.user_id
           /\ \A f \in ProfileFields :
                 profiles[log[1].body.id][f]
                    = IF f \in DOMAIN script.second THEN script.second[f]
                      ELSE IF f \in DOMAIN script.first THEN script.first[f]
                      ELSE None

C5_Witness ==
    /\ script.name = "merge"
    /\ Len(log) = 2
    /\ "phone" \in DOMAIN script.first
    /\ "phone" \notin DOMAIN script.second
    /\ "country" \in DOMAIN script.second

\* C6: the string hash_password stores is salt$digest with exactly one "$",
\* is not the plaintext, and verify_password accepts the password against it.
C6_HashVerifyRoundTrip ==
    /\ hasher.pc \in {"hashed", "verified"} =>
          LET parts == Split(hasher.stored, "$", <<>>)
          IN  /\ Count(hasher.stored, "$") = 1
              /\ Len(parts) = 2
              /\ parts[1] \in token_hex(SaltBytes)
              /\ parts[2] = Hex(pbkdf2_hmac(Encode(hasher.password),
                                            Encode(parts[1]), Iterations))
              /\ hasher.stored # hasher.password
    /\ hasher.pc = "verified" => hasher.ok

C6_Witness ==
    /\ hasher.pc = "verified"
    /\ Count(hasher.password, "$") >= 1
    /\ Len(hasher.password) = MaxPwLen

\* C7: from a store without a user of email e, POST /users(e); POST
\* /users(e); GET /users/{id}; DELETE /users/{id}; GET /users/{id} answer
\* 201 with an id, 400, 200 with the first user's data, 204 and 404.
C7_Lifecycle ==
    script.name = "lifecycle" =>
       /\ Len(log) >= 1 =>
             /\ log[1].status = 201
             /\ log[1].body.id \in UserIds
             /\ log[1].body.row.email = Some(script.first.email)
             /\ log[1].body.row.full_name = script.first.full_name
       /\ Len(log) >= 2 => log[2].status = 400
       /\ Len(log) >= 3 => log[3].status = 200 /\ log[3].body = log[1].body
       /\ Len(log) >= 4 => log[4].status = 204
       /\ Len(log) >= 5 => log[5].status = 404

C7_Witness ==
    /\ script.name = "lifecycle"
    /\ Len(log) = 5
    /\ script.second # script.first
    /\ DOMAIN users # {}

\* C8: every profile row's user_id is the id of a user row.
C8_NoOrphanProfile ==
    \A i \in DOMAIN profiles : profiles[i].user_id \in DOMAIN users

C10_OneProfilePerUser ==
    /\ [](\A i, j \in DOMAIN profiles :
             profiles[i].user_id = profiles[j].user_id => i = j)
    /\ [][\A p \in Procs :
             (pc[p] = "create_profile" /\ pc'[p] = "done" /\ loc[p].obj = None
                /\ get_user_profile(req[p].user_id) # None)
             => profiles' = profiles /\ resp'[p].status = 400]_vars

C10_Witness ==
    \E p, q \in Procs :
       /\ p # q
       /\ Done(p, "create_profile") /\ Done(q, "create_profile")
       /\ req[p].user_id = req[q].user_id
       /\ resp[p].status = 201
       /\ resp[q].status = 400
       /\ resp[q].exc = "IntegrityError"

====
